---------------------------- MODULE Spec2Model ----------------------------
(***************************************************************************)
(* Model of src/src/server.py: the DNSCache (a cachetools.TTLCache guarded *)
(* by one RLock, plus the _custom_ttls side table) as it is driven by      *)
(* concurrent request threads, and the CIDR range lookup.                  *)
(*                                                                         *)
(* The TTLCache is modelled by what cachetools 5.x does: an OrderedDict    *)
(* of links kept in least-recently-used order (__links), a linked list in  *)
(* expiry order (here the sequence chain), lazy purging by expire(), and   *)
(* every entry expiring at <time of its __setitem__> + ttl, whatever the   *)
(* ttl argument DNSCache.set was given.  An expired entry stays stored     *)
(* until the next expire(), but is invisible to get, len and keys.         *)
(*                                                                         *)
(* Time is one integer clock, now, read by time.time() and by the cache's  *)
(* timer alike; one unit is the granularity of the TTLs (a second).  The   *)
(* clock may advance between any two actions, also while the lock is held. *)
(* The body of get and the body of set each read the clock at one instant  *)
(* (the instant that defines the call's expiry test or expiry time);       *)
(* reset and stats are stepped statement by statement, because what they   *)
(* return or expose is assembled from several reads of the cache.          *)
(*                                                                         *)
(* Specifications: Spec, the four cache operations called by two threads;  *)
(* SpecSteps, get and set stepped statement by statement; SpecZone, the    *)
(* range lookup on any well-formed table; SpecStartup, the loading of the  *)
(* subnet file and the building of the table; SpecResolve, the lookup and  *)
(* /cache/reset requests of do_GET on a fixed table, and SpecPromise, the  *)
(* same with the history of the stores of answered requests; SpecPaths,   *)
(* the requests /<name> and /ip/<address>; SpecFair, the four cache        *)
(* operations with the callers blocked on the lock, under fairness.  The   *)
(* other paths of do_GET (/healthz, /readyz, /metrics, /cache/stats)       *)
(* neither read nor write what a lookup request uses and are left out.     *)
(***************************************************************************)
EXTENDS Integers, Sequences, FiniteSets, TLC

\* ------------------------------------------------------------------ bounds
MaxTime == 3
MaxSubnets == 2
AddrBits == 1

\* -------------------------------------------------- program configuration
DNS_CACHE_TTL == 2
DNS_CACHE_MAXSIZE == 2

\* ------------------------------------------------------------ input sets
\* the names requests ask for; the cache takes any string as a key, "-c" is
\* one that is not a well-formed host name
Names == {"a", "b", "-c"}
\* what strip('/') leaves of the path /ip/<address>, for the address ip1
IpPaths == {"ip/ip1"}
\* the strings the cache is given as keys
Keys == Names \cup IpPaths
\* the addresses each name may be cached with
Values ==
    [k \in Keys |-> IF k = "a" THEN {"ip1", "ip2"} ELSE IF k = "-c" THEN {"ip3"} ELSE {"ip2"}]
Threads == {"t1", "t2"}
NoThread == "none"
NoValue == "None"
NoTtl == -1
TtlArgs == {NoTtl, DNS_CACHE_TTL - 1, DNS_CACHE_TTL, DNS_CACHE_TTL + 1}

VARIABLES
    now,        \* the clock
    cache,      \* DNSCache.cache : the TTLCache
    custom,     \* DNSCache._custom_ttls : key -> expiry time
    ttl,        \* DNSCache.ttl
    lock,       \* DNSCache.lock : the thread that holds it, or NoThread
    pc,         \* per thread: position in the cache operation it runs
    loc,        \* per thread: arguments, locals and return value
    stored,     \* history: per key, the last set not evicted or reset since
    lastUse,    \* history: stored keys in the order of their last set / get hit
    gauge,      \* dns_cache_size : the value the gauge was last set to
    subnets,    \* SUBNETS_DATA : the loaded records, in file order
    mappings,   \* CIDR_MAPPINGS : the dict, as its (network, data) items in order
    zpc,        \* startup / serving position of the range matcher
    query,      \* the address handed to _get_zone_data
    zone,       \* what _get_zone_data returned for it
    file,       \* the file SUBNETS_FILE names, as load_subnets_data finds it
    rpc,        \* per thread: position in the do_GET lookup request it handles
    req,        \* per thread: the request's fqdn, ip_address and response
    promised    \* history: the name -> address stores of completed requests

cacheVars == <<now, cache, custom, ttl, lock, pc, loc, stored, lastUse, gauge>>

zoneVars == <<subnets, mappings, zpc, query, zone, file>>

facadeVars == <<rpc, req, promised>>

vars == <<cacheVars, zoneVars, facadeVars>>

\* ------------------------------------------------------- small utilities
Remove(f, k) == [x \in (DOMAIN f) \ {k} |-> f[x]]

\* bug: a key that has a value keeps it
Put_KeepFirst(f, k, v) == [x \in (DOMAIN f) \cup {k} |-> IF x \in DOMAIN f THEN f[x] ELSE v]

Put(f, k, v) == [x \in (DOMAIN f) \cup {k} |-> IF x = k THEN v ELSE f[x]]

SeqRemove(s, k) == SelectSeq(s, LAMBDA x : x # k)

SeqSet(s) == {s[i] : i \in 1..Len(s)}

\* OrderedDict.move_to_end
MoveToEnd(s, k) == Append(SeqRemove(s, k), k)

ChainRemove(ch, k) == SelectSeq(ch, LAMBDA l : l.key # k)

\* link.expires of a key that has a link
ExpiresOf(c, k) == c.chain[CHOOSE i \in 1..Len(c.chain) : c.chain[i].key = k].expires

\* ------------------------------------------------- cachetools.TTLCache
\* TTLCache(maxsize, ttl)
NewTTLCache(maxsize, t) ==
    [data |-> <<>>, links |-> <<>>, chain |-> <<>>, maxsize |-> maxsize, ttl |-> t]

\* TTLCache.expire(time): unlink from the head of the expiry list while expired
RECURSIVE TTLCache_expire(_, _)
TTLCache_expire(c, time) ==
    IF c.chain # <<>> /\ ~(time < Head(c.chain).expires)
    THEN TTLCache_expire([c EXCEPT !.data = Remove(@, Head(c.chain).key),
                                   !.links = SeqRemove(@, Head(c.chain).key),
                                   !.chain = Tail(@)], time)
    ELSE c

\* TTLCache.__contains__: a link exists and has not expired (no reordering)
TTLCache_contains(c, key, time) ==
    key \in SeqSet(c.links) /\ time < ExpiresOf(c, key)

\* bug: a read does not refresh the recency of the key
TTLCache_getitem_NoReorder(c, key) == c

\* TTLCache.__getitem__ on a key that is contained: __getlink moves the link
\* to the end of the LRU order
TTLCache_getitem(c, key) == [c EXCEPT !.links = MoveToEnd(@, key)]

\* TTLCache.__delitem__
TTLCache_delitem(c, key) ==
    [c EXCEPT !.data = Remove(@, key),
              !.links = SeqRemove(@, key),
              !.chain = ChainRemove(@, key)]

\* bug: a lookup that misses purges whatever has expired
TTLCache_get_Purging(c, key, time) ==
    IF TTLCache_contains(c, key, time)
    THEN [cache |-> TTLCache_getitem(c, key), value |-> c.data[key]]
    ELSE [cache |-> TTLCache_expire(c, time), value |-> NoValue]

\* Cache.get(key): self[key] if key in self else None
TTLCache_get(c, key, time) ==
    IF TTLCache_contains(c, key, time)
    THEN [cache |-> TTLCache_getitem(c, key), value |-> c.data[key]]
    ELSE [cache |-> c, value |-> NoValue]

\* bug: the pop also purges whatever else has expired
TTLCache_pop_Purging(c, key, time) ==
    IF TTLCache_contains(c, key, time)
    THEN TTLCache_expire(TTLCache_delitem(TTLCache_getitem(c, key), key), time)
    ELSE c

\* Cache.pop(key, None): value = self[key]; del self[key], when key in self
TTLCache_pop(c, key, time) ==
    IF TTLCache_contains(c, key, time)
    THEN TTLCache_delitem(TTLCache_getitem(c, key), key)
    ELSE c

\* TTLCache.popitem(): expire, then pop the first key of the LRU order
TTLCache_popitem(c, time) ==
    LET c1 == TTLCache_expire(c, time)
    IN  TTLCache_pop(c1, Head(c1.links), time)

\* bug: the store never makes room
Cache_evict_Never(c, time) == c

\* Cache.__setitem__: make room for a new key, then store
RECURSIVE Cache_evict(_, _)
Cache_evict(c, time) ==
    IF Cardinality(DOMAIN c.data) + 1 > c.maxsize
    THEN Cache_evict(TTLCache_popitem(c, time), time)
    ELSE c

\* bug: room is made also for a key that is already stored
Cache_setitem_EvictAlways(c, key, value, time) ==
    [Cache_evict(c, time) EXCEPT !.data = Put(@, key, value)]

Cache_setitem(c, key, value, time) ==
    LET c1 == IF key \notin DOMAIN c.data THEN Cache_evict(c, time) ELSE c
    IN  [c1 EXCEPT !.data = Put(@, key, value)]

\* TTLCache.__setitem__: expire, store, relink at the end of both orders with
\* expires = time + ttl
TTLCache_setitem(c, key, value, time) ==
    LET c1 == Cache_setitem(TTLCache_expire(c, time), key, value, time)
    IN  [c1 EXCEPT !.links = MoveToEnd(@, key),
                   !.chain = Append(ChainRemove(@, key),
                                    [key |-> key, expires |-> time + c.ttl])]

\* len(cache): expire, then count
TTLCache_len(c, time) == Cardinality(DOMAIN TTLCache_expire(c, time).data)


\* --------------------------------------------------------- range matcher
\* An address is a version and a value of AddrBits bits; a network is a
\* version, a base address and a prefix length, its host bits zero.
RECURSIVE Pow2(_)
Pow2(n) == IF n = 0 THEN 1 ELSE 2 * Pow2(n - 1)

Versions == {4, 6}

Addresses == [valid : {TRUE}, ver : Versions, val : 0..(Pow2(AddrBits) - 1)]

\* a string ipaddress.ip_address() rejects
BadAddress == [valid |-> FALSE, ver |-> 4, val |-> 0]

\* no address has been handed to _get_zone_data yet
NoQuery == [valid |-> FALSE, ver |-> 0, val |-> 0]

Networks ==
    {n \in [ver : Versions, base : 0..(Pow2(AddrBits) - 1), prefix : 0..AddrBits] :
        n.base % Pow2(AddrBits - n.prefix) = 0}

ZoneData == {[AvailabilityZone |-> "zoneA", AvailabilityZoneId |-> "id-a"],
             [AvailabilityZone |-> "zoneB", AvailabilityZoneId |-> "id-b"]}

NoZone == [AvailabilityZone |-> "None", AvailabilityZoneId |-> "None"]

SubnetRecords == [CIDRBlock : Networks, data : ZoneData]

\* a key the JSON object of a record does not have
Absent == "absent"

NoCidr == [ver |-> 0, base |-> 0, prefix |-> 0]

\* a "CIDRBlock" string ipaddress.ip_network() rejects
BadCidr == [ver |-> 0, base |-> 1, prefix |-> 0]

\* records without CIDRBlock, with an invalid one, without AvailabilityZone
\* and without AvailabilityZoneId
MalformedRecords ==
    {[CIDRBlock |-> NoCidr,
      data |-> [AvailabilityZone |-> "zoneA", AvailabilityZoneId |-> "id-a"]],
     [CIDRBlock |-> BadCidr,
      data |-> [AvailabilityZone |-> "zoneA", AvailabilityZoneId |-> "id-a"]],
     [CIDRBlock |-> [ver |-> 4, base |-> 0, prefix |-> 0],
      data |-> [AvailabilityZone |-> Absent, AvailabilityZoneId |-> "id-a"]],
     [CIDRBlock |-> [ver |-> 4, base |-> 0, prefix |-> 0],
      data |-> [AvailabilityZone |-> "zoneA", AvailabilityZoneId |-> Absent]]}

\* lines 184-186: what building the item of record r raises: subnet[...] a
\* KeyError, ip_network(...) a ValueError
RecordFault(r) ==
    IF r.CIDRBlock = NoCidr THEN "KeyError"
    ELSE IF r.CIDRBlock = BadCidr THEN "ValueError"
    ELSE IF Absent \in {r.data.AvailabilityZone, r.data.AvailabilityZoneId} THEN "KeyError"
    ELSE "none"

\* the exception that ends the dict comprehension: that of the first record
\* that raises one
RECURSIVE FirstFault(_)
FirstFault(recs) ==
    IF recs = <<>> THEN "none"
    ELSE IF RecordFault(Head(recs)) # "none" THEN RecordFault(Head(recs))
    ELSE FirstFault(Tail(recs))

RECURSIVE SeqsUpTo(_, _)
SeqsUpTo(S, n) ==
    IF n = 0 THEN {<<>>}
    ELSE LET shorter == SeqsUpTo(S, n - 1)
         IN  shorter \cup {Append(q, x) : q \in {r \in shorter : Len(r) = n - 1}, x \in S}

\* the dict comprehension of lines 183-188: a repeated key keeps its first
\* position and takes the later value
RECURSIVE BuildMappings(_, _)
BuildMappings(recs, acc) ==
    IF recs = <<>> THEN acc
    ELSE LET r == Head(recs)
             at == {i \in 1..Len(acc) : acc[i].net = r.CIDRBlock}
             item == [net |-> r.CIDRBlock, data |-> r.data]
         IN  BuildMappings(Tail(recs),
                           IF at = {} THEN Append(acc, item)
                           ELSE [acc EXCEPT ![CHOOSE i \in at : TRUE] = item])

\* ip in network: same version, and the address masked by the netmask is the
\* network address
InNetwork(ip, net) ==
    /\ ip.ver = net.ver
    /\ (ip.val \div Pow2(AddrBits - net.prefix)) * Pow2(AddrBits - net.prefix) = net.base

\* bug: the scan does not stop at the first enclosing network
RECURSIVE ScanMappings_LastMatch(_, _)
ScanMappings_LastMatch(m, ip) ==
    IF m = <<>> THEN NoZone
    ELSE LET rest == ScanMappings_LastMatch(Tail(m), ip)
         IN  IF rest # NoZone THEN rest
             ELSE IF InNetwork(ip, Head(m).net) THEN Head(m).data ELSE NoZone

\* lines 339-341: for network, data in CIDR_MAPPINGS.items(): first hit wins
RECURSIVE ScanMappings(_, _)
ScanMappings(m, ip) ==
    IF m = <<>> THEN NoZone
    ELSE IF InNetwork(ip, Head(m).net) THEN Head(m).data
    ELSE ScanMappings(Tail(m), ip)

\* _get_zone_data: a ValueError of ip_address() is caught and gives None
GetZoneData(m, ip) == IF ~ip.valid THEN NoZone ELSE ScanMappings(m, ip)

\* no file at the place SUBNETS_FILE names
NoFile == [exists |-> FALSE, json |-> FALSE, records |-> <<>>]

\* the range matcher before startup, and in the specifications that do not
\* exercise it
ZoneIdle ==
    /\ subnets = <<>>
    /\ mappings = <<>>
    /\ zpc = "off"
    /\ query = NoQuery
    /\ zone = NoZone
    /\ file = NoFile

\* bug: a missing or unreadable file is taken for an empty table
Loadable_Always(f) == TRUE

\* lines 167-173: the file exists and json.load reads it
Loadable(f) == f.exists /\ f.json

\* lines 162-180: SUBNETS_DATA = load_subnets_data(), or sys.exit(1)
LoadSubnetsData ==
    /\ zpc = "start"
    /\ IF Loadable(file)
       THEN /\ subnets' = file.records
            /\ zpc' = "loaded"
       ELSE /\ subnets' = subnets
            /\ zpc' = "exited"
    /\ UNCHANGED <<mappings, query, zone, file, cacheVars, facadeVars>>

\* lines 182-192: module import builds CIDR_MAPPINGS from SUBNETS_DATA; a
\* KeyError is caught and answered by sys.exit(1), a ValueError ends the
\* import with a traceback
LoadMappings ==
    /\ zpc = "loaded"
    /\ IF FirstFault(subnets) = "none"
       THEN /\ mappings' = BuildMappings(subnets, <<>>)
            /\ zpc' = "serving"
       ELSE /\ mappings' = mappings
            /\ zpc' = IF FirstFault(subnets) = "KeyError" THEN "exited" ELSE "crashed"
    /\ UNCHANGED <<subnets, query, zone, file, cacheVars, facadeVars>>

\* _get_zone_data(ip_address_str)
ZoneLookup(ip) ==
    /\ zpc = "serving"
    /\ query' = ip
    /\ zone' = GetZoneData(mappings, ip)
    /\ UNCHANGED <<subnets, mappings, zpc, file, cacheVars, facadeVars>>

\* ------------------------------------------------------------ DNSCache
NoEntry == [set |-> FALSE, v |-> NoValue, at |-> 0, ttl |-> 0]

IdleLoc == [key |-> "a", at |-> 0, ret |-> NoValue, path |-> "none", st |-> NoEntry,
            gone |-> {}, untracked |-> {}, lru |-> "a", full |-> FALSE,
            total |-> 0, keys |-> <<>>, idx |-> 0, val |-> NoValue, tt |-> NoTtl,
            \* history: the custom expiry a stepped set found for its key
            was |-> NoTtl,
            \* history: a stepped set found its key live in a full cache
            over |-> FALSE]

\* a request handler before do_GET is entered
IdleReq == [fqdn |-> "", ip |-> NoValue, hit |-> FALSE, called |-> FALSE,
            consulted |-> FALSE, exc |-> "none", status |-> 0, sent |-> 0,
            zone |-> NoZone,
            \* history: the entry the cache lookup found was live, and its value
            live |-> FALSE, want |-> NoValue,
            \* history: the request stored at time at; it began before a store
            \* of its name was promised
            wrote |-> FALSE, at |-> 0, early |-> FALSE,
            \* history: a reset began after the resolver returned the address
            \* and before the request stored it
            stale |-> FALSE]

\* no request is being handled
FacadeIdle ==
    /\ rpc = [t \in Threads |-> "idle"]
    /\ req = [t \in Threads |-> IdleReq]
    /\ promised = {}

\* bug: no mutual exclusion
LockAvailable_Always == TRUE

\* with self.lock: the RLock can be taken when no thread holds it (no code
\* path takes it twice)
LockAvailable == lock = NoThread

\* DNSCache.__init__ and the module-level dns_cache
Init ==
    /\ now = 0
    /\ cache = NewTTLCache(DNS_CACHE_MAXSIZE, DNS_CACHE_TTL)
    /\ custom = <<>>
    /\ ttl = DNS_CACHE_TTL
    /\ lock = NoThread
    /\ pc = [t \in Threads |-> "idle"]
    /\ loc = [t \in Threads |-> IdleLoc]
    /\ stored = [k \in Keys |-> NoEntry]
    /\ lastUse = <<>>
    /\ gauge = 0
    /\ ZoneIdle
    /\ FacadeIdle

\* time passes
Tick ==
    /\ now < MaxTime
    /\ now' = now + 1
    /\ UNCHANGED <<cache, custom, ttl, lock, pc, loc, stored, lastUse, gauge,
                 zoneVars, facadeVars>>

\* history is kept for a key as long as one of the two tables tracks it
Tracked(st, c, cu) ==
    [k \in Keys |-> IF k \in DOMAIN c.data \/ k \in DOMAIN cu THEN st[k] ELSE NoEntry]

\* history kept for the stored keys only
Surviving(order, c) == SelectSeq(order, LAMBDA k : k \in DOMAIN c.data)

\* the keys a stats() at time would list: those with an unexpired link
Listed(c, time) == {k \in SeqSet(c.links) : time < ExpiresOf(c, k)}

\* bug: the lock is still held after the with block
Unlock_Never(t) == t

\* the holder of the lock once t has left its with block
Unlock(t) == NoThread

\* leaving the with block of any of the four operations and returning
Leave(t) ==
    /\ pc[t] \in {"get_exit", "set_exit", "reset_exit", "stats_exit"}
    /\ lock' = Unlock(t)
    /\ pc' = [pc EXCEPT ![t] = "idle"]
    /\ loc' = [loc EXCEPT ![t] = IdleLoc]
    /\ UNCHANGED <<now, cache, custom, ttl, stored, lastUse, gauge>>

\* ... called on the cache directly
Exit(t) ==
    /\ Leave(t)
    /\ UNCHANGED <<zoneVars, facadeVars>>

\* ---- get(fqdn)
\* bug: the entry is still served at the instant its custom TTL ends
CustomExpired_Late(cu, k, time) == k \in DOMAIN cu /\ time > cu[k]

\* the custom-TTL test of time.time() against _custom_ttls[fqdn]
CustomExpired(cu, k, time) == k \in DOMAIN cu /\ time >= cu[k]

\* the body of get: the tables it leaves, the value it returns and the
\* return statement it leaves by (line 115, 121 or 123)
DNSCache_get(c, cu, k, time) ==
    IF CustomExpired(cu, k, time)
    THEN [cache |-> TTLCache_pop(c, k, time), custom |-> Remove(cu, k),
          value |-> NoValue, path |-> "expired"]
    ELSE LET r == TTLCache_get(c, k, time)
         IN  [cache |-> r.cache, custom |-> cu, value |-> r.value,
              path |-> IF r.value # NoValue THEN "hit" ELSE "miss"]

\* get takes the lock and runs its body
GetLocked(t, k) ==
    /\ pc[t] = "idle"
    /\ LockAvailable
    /\ lock' = t
    /\ LET r == DNSCache_get(cache, custom, k, now)
       IN  /\ cache' = r.cache
           /\ custom' = r.custom
           /\ loc' = [loc EXCEPT ![t] =
                        [IdleLoc EXCEPT !.key = k, !.at = now, !.ret = r.value,
                                        !.path = r.path, !.st = stored[k],
                                        !.gone = DOMAIN cache.data \ DOMAIN r.cache.data]]
           /\ lastUse' = Surviving(IF r.path = "hit" THEN MoveToEnd(lastUse, k)
                                                     ELSE lastUse, r.cache)
           /\ stored' = Tracked(stored, r.cache, r.custom)
    /\ pc' = [pc EXCEPT ![t] = "get_exit"]
    /\ UNCHANGED <<now, ttl, gauge>>

\* ... called on the cache directly
Get(t, k) ==
    /\ GetLocked(t, k)
    /\ UNCHANGED <<zoneVars, facadeVars>>

\* ---- set(fqdn, ip_address, ttl)
\* the ttl the caller asked for
AskedTtl(tt) == IF tt = NoTtl THEN ttl ELSE tt

\* keys that were live in c at time and are gone from d: evicted for room
Evicted(c, d, time) ==
    {j \in DOMAIN c.data : TTLCache_contains(c, j, time) /\ j \notin DOMAIN d.data}

\* every entry of both tables is one a get at time would return
AllLive(c, cu, time) ==
    \A j \in DOMAIN c.data : TTLCache_contains(c, j, time) /\ ~CustomExpired(cu, j, time)

\* bug: a set with the default ttl leaves the custom record of the key
DNSCache_track_KeepCustom(cu, k, tt, time) ==
    IF tt # NoTtl /\ tt # ttl THEN Put(cu, k, time + tt) ELSE cu

\* lines 131-135: track the custom TTL, or untrack it when the default is used
DNSCache_track(cu, k, tt, time) ==
    IF tt # NoTtl /\ tt # ttl THEN Put(cu, k, time + tt) ELSE Remove(cu, k)

\* set takes the lock, stores, tracks the custom TTL and reads
\* len(self.cache) for the gauge
SetLocked(t, k, v, tt) ==
    /\ pc[t] = "idle"
    /\ LockAvailable
    /\ lock' = t
    /\ cache' = TTLCache_expire(TTLCache_setitem(cache, k, v, now), now)
    /\ custom' = DNSCache_track(custom, k, tt, now)
    /\ stored' = [j \in Keys |->
                    IF j = k
                    THEN [set |-> TRUE, v |-> v, at |-> now, ttl |-> AskedTtl(tt)]
                    ELSE IF j \in Evicted(cache, cache', now) THEN NoEntry
                    ELSE Tracked(stored, cache', custom')[j]]
    /\ lastUse' = Surviving(MoveToEnd(lastUse, k), cache')
    /\ loc' = [loc EXCEPT ![t] =
                 [IdleLoc EXCEPT
                    !.key = k, !.at = now,
                    !.gone = DOMAIN cache.data \ DOMAIN cache'.data,
                    !.lru = IF lastUse # <<>> THEN Head(lastUse) ELSE k,
                    !.full = /\ k \notin DOMAIN cache.data
                             /\ Cardinality(DOMAIN cache.data) = cache.maxsize
                             /\ AllLive(cache, custom, now)]]
    /\ gauge' = TTLCache_len(cache', now)
    /\ pc' = [pc EXCEPT ![t] = "set_exit"]
    /\ UNCHANGED <<now, ttl>>

\* ... called on the cache directly
Set(t, k, v, tt) ==
    /\ SetLocked(t, k, v, tt)
    /\ UNCHANGED <<zoneVars, facadeVars>>

\* ---- reset()
ResetLocked(t) ==
    /\ pc[t] = "idle"
    /\ LockAvailable
    /\ lock' = t
    /\ pc' = [pc EXCEPT ![t] = "reset_clear"]
    /\ stored' = [k \in Keys |-> NoEntry]
    /\ UNCHANGED <<now, cache, custom, ttl, loc, lastUse, gauge>>

\* ... called on the cache directly
ResetAcquire(t) ==
    /\ ResetLocked(t)
    /\ UNCHANGED <<zoneVars, facadeVars>>

\* line 143: cache.clear() freezes the timer, expires ...
ResetClear(t) ==
    /\ pc[t] = "reset_clear"
    /\ cache' = TTLCache_expire(cache, now)
    /\ lastUse' = Surviving(lastUse, cache')
    /\ loc' = [loc EXCEPT ![t].at = now]
    /\ pc' = [pc EXCEPT ![t] = "reset_pop"]
    /\ UNCHANGED <<now, custom, ttl, lock, stored, gauge, zoneVars, facadeVars>>

\* bug: clear() leaves the entries
ResetPop_Skip(t) ==
    /\ pc[t] = "reset_pop"
    /\ pc' = [pc EXCEPT ![t] = "reset_custom"]
    /\ UNCHANGED <<now, cache, custom, ttl, lock, loc, stored, lastUse, gauge,
                 zoneVars, facadeVars>>

\* ... and calls popitem() until the cache is empty
ResetPop(t) ==
    /\ pc[t] = "reset_pop"
    /\ IF cache.links # <<>>
       THEN /\ cache' = TTLCache_pop(cache, Head(cache.links), loc[t].at)
            /\ loc' = [loc EXCEPT ![t].gone = @ \cup {Head(cache.links)}]
            /\ pc' = pc
       ELSE /\ cache' = cache
            /\ loc' = loc
            /\ pc' = [pc EXCEPT ![t] = "reset_custom"]
    /\ lastUse' = Surviving(lastUse, cache')
    /\ UNCHANGED <<now, custom, ttl, lock, stored, gauge, zoneVars, facadeVars>>

\* lines 144-146: _custom_ttls.clear(); dns_cache_size.set(0)
ResetCustom(t) ==
    /\ pc[t] = "reset_custom"
    /\ custom' = <<>>
    /\ gauge' = 0
    /\ loc' = [loc EXCEPT ![t].untracked = DOMAIN custom]
    /\ pc' = [pc EXCEPT ![t] = "reset_exit"]
    /\ UNCHANGED <<now, cache, ttl, lock, stored, lastUse, zoneVars, facadeVars>>

\* ---- stats()
StatsLocked(t) ==
    /\ pc[t] = "idle"
    /\ LockAvailable
    /\ lock' = t
    /\ pc' = [pc EXCEPT ![t] = "stats_len"]
    /\ UNCHANGED <<now, cache, custom, ttl, loc, stored, lastUse, gauge>>

\* ... called on the cache directly
StatsAcquire(t) ==
    /\ StatsLocked(t)
    /\ UNCHANGED <<zoneVars, facadeVars>>

\* line 152: 'total_entries': len(self.cache)
StatsLen(t) ==
    /\ pc[t] = "stats_len"
    /\ cache' = TTLCache_expire(cache, now)
    /\ lastUse' = Surviving(lastUse, cache')
    /\ stored' = Tracked(stored, cache', custom)
    /\ loc' = [loc EXCEPT ![t].total = TTLCache_len(cache, now)]
    /\ pc' = [pc EXCEPT ![t] = "stats_keys"]
    /\ UNCHANGED <<now, custom, ttl, lock, gauge, zoneVars, facadeVars>>

\* line 153: list(self.cache.keys()) first asks the view for its length
StatsKeys(t) ==
    /\ pc[t] = "stats_keys"
    /\ cache' = TTLCache_expire(cache, now)
    /\ lastUse' = Surviving(lastUse, cache')
    /\ stored' = Tracked(stored, cache', custom)
    /\ loc' = [loc EXCEPT ![t].idx = 1, ![t].keys = <<>>]
    /\ pc' = [pc EXCEPT ![t] = "stats_iter"]
    /\ UNCHANGED <<now, custom, ttl, lock, gauge, zoneVars, facadeVars>>

\* TTLCache.__iter__: walk the expiry list, yield the keys not expired at
\* the time each one is visited
StatsIter(t) ==
    /\ pc[t] = "stats_iter"
    /\ IF loc[t].idx <= Len(cache.chain)
       THEN /\ loc' = [loc EXCEPT
                         ![t].idx = @ + 1,
                         ![t].keys = IF now < cache.chain[loc[t].idx].expires
                                     THEN Append(@, cache.chain[loc[t].idx].key)
                                     ELSE @]
            /\ pc' = pc
       ELSE /\ loc' = loc
            /\ pc' = [pc EXCEPT ![t] = "stats_exit"]
    /\ UNCHANGED <<now, cache, custom, ttl, lock, stored, lastUse, gauge, zoneVars, facadeVars>>

Next ==
    \/ Tick
    \/ \E t \in Threads : Exit(t)
    \/ \E t \in Threads, k \in Names : Get(t, k)
    \/ \E t \in Threads, k \in Names, tt \in TtlArgs : \E v \in Values[k] : Set(t, k, v, tt)
    \/ \E t \in Threads : ResetAcquire(t)
    \/ \E t \in Threads : ResetClear(t)
    \/ \E t \in Threads : ResetPop(t)
    \/ \E t \in Threads : ResetCustom(t)
    \/ \E t \in Threads : StatsAcquire(t)
    \/ \E t \in Threads : StatsLen(t)
    \/ \E t \in Threads : StatsKeys(t)
    \/ \E t \in Threads : StatsIter(t)

Spec == Init /\ [][Next]_vars

\* ---- the range matcher alone: any table of subnet records, any address
InitZone ==
    /\ now = 0
    /\ cache = NewTTLCache(DNS_CACHE_MAXSIZE, DNS_CACHE_TTL)
    /\ custom = <<>>
    /\ ttl = DNS_CACHE_TTL
    /\ lock = NoThread
    /\ pc = [t \in Threads |-> "idle"]
    /\ loc = [t \in Threads |-> IdleLoc]
    /\ stored = [k \in Keys |-> NoEntry]
    /\ lastUse = <<>>
    /\ gauge = 0
    /\ subnets \in SeqsUpTo(SubnetRecords, MaxSubnets)
    /\ mappings = <<>>
    /\ zpc = "loaded"
    /\ query = NoQuery
    /\ zone = NoZone
    /\ file = [exists |-> TRUE, json |-> TRUE, records |-> subnets]
    /\ FacadeIdle

NextZone ==
    \/ LoadMappings
    \/ \E ip \in Addresses \cup {BadAddress} : ZoneLookup(ip)

SpecZone == InitZone /\ [][NextZone]_vars

\* ---- get and set statement by statement: the clock may advance, and
\* without the lock another thread may run, between any two statements
\* the names the stepped calls use
StepKeys == {"a", "b"}

\* line 127: with self.lock
Set_enter(t, k, v, tt) ==
    /\ pc[t] = "idle"
    /\ LockAvailable
    /\ lock' = t
    /\ loc' = [loc EXCEPT ![t] = [IdleLoc EXCEPT !.key = k, !.val = v, !.tt = tt]]
    /\ pc' = [pc EXCEPT ![t] = "set_store"]
    /\ UNCHANGED <<now, cache, custom, ttl, stored, lastUse, gauge, zoneVars, facadeVars>>

\* line 128: self.cache[fqdn] = ip_address
Set_store(t) ==
    /\ pc[t] = "set_store"
    /\ cache' = TTLCache_setitem(cache, loc[t].key, loc[t].val, now)
    /\ stored' = [j \in Keys |->
                    IF j = loc[t].key
                    THEN [set |-> TRUE, v |-> loc[t].val, at |-> now,
                          ttl |-> AskedTtl(loc[t].tt)]
                    ELSE IF j \in Evicted(cache, cache', now) THEN NoEntry
                    ELSE Tracked(stored, cache', custom)[j]]
    /\ lastUse' = Surviving(MoveToEnd(lastUse, loc[t].key), cache')
    /\ loc' = [loc EXCEPT ![t].at = now,
                          ![t].over = /\ loc[t].key \in Listed(cache, now)
                                      /\ Cardinality(Listed(cache, now)) = cache.maxsize]
    /\ pc' = [pc EXCEPT ![t] = "set_track"]
    /\ UNCHANGED <<now, custom, ttl, lock, gauge, zoneVars, facadeVars>>

\* lines 131-135: the custom TTL is tracked or untracked
Set_track(t) ==
    /\ pc[t] = "set_track"
    /\ custom' = DNSCache_track(custom, loc[t].key, loc[t].tt, now)
    /\ loc' = [loc EXCEPT ![t].was = IF loc[t].key \in DOMAIN custom
                                      THEN custom[loc[t].key] ELSE NoTtl]
    /\ pc' = [pc EXCEPT ![t] = "set_len"]
    /\ UNCHANGED <<now, cache, ttl, lock, stored, lastUse, gauge, zoneVars, facadeVars>>

\* line 138: dns_cache_size.set(len(self.cache))
Set_len(t) ==
    /\ pc[t] = "set_len"
    /\ cache' = TTLCache_expire(cache, now)
    /\ lastUse' = Surviving(lastUse, cache')
    /\ stored' = Tracked(stored, cache', custom)
    /\ gauge' = TTLCache_len(cache, now)
    /\ pc' = [pc EXCEPT ![t] = "set_exit"]
    /\ UNCHANGED <<now, custom, ttl, lock, loc, zoneVars, facadeVars>>

\* line 106: with self.lock
Get_enter(t, k) ==
    /\ pc[t] = "idle"
    /\ LockAvailable
    /\ lock' = t
    /\ loc' = [loc EXCEPT ![t] = [IdleLoc EXCEPT !.key = k]]
    /\ pc' = [pc EXCEPT ![t] = "get_check"]
    /\ UNCHANGED <<now, cache, custom, ttl, stored, lastUse, gauge, zoneVars, facadeVars>>

\* lines 108-110: the custom TTL of fqdn is looked up and tested
Get_check(t) ==
    /\ pc[t] = "get_check"
    /\ loc' = [loc EXCEPT ![t].at = now, ![t].st = stored[loc[t].key]]
    /\ pc' = [pc EXCEPT ![t] = IF CustomExpired(custom, loc[t].key, now)
                                THEN "get_pop_custom" ELSE "get_read"]
    /\ UNCHANGED <<now, cache, custom, ttl, lock, stored, lastUse, gauge, zoneVars, facadeVars>>

\* line 112: self._custom_ttls.pop(fqdn, None)
Get_popCustom(t) ==
    /\ pc[t] = "get_pop_custom"
    /\ custom' = Remove(custom, loc[t].key)
    /\ pc' = [pc EXCEPT ![t] = "get_pop_cache"]
    /\ UNCHANGED <<now, cache, ttl, lock, loc, stored, lastUse, gauge, zoneVars, facadeVars>>

\* lines 113-115: self.cache.pop(fqdn, None); return None
Get_popCache(t) ==
    /\ pc[t] = "get_pop_cache"
    /\ cache' = TTLCache_pop(cache, loc[t].key, now)
    /\ lastUse' = Surviving(lastUse, cache')
    /\ loc' = [loc EXCEPT ![t].path = "expired",
                          ![t].gone = DOMAIN cache.data \ DOMAIN cache'.data]
    /\ pc' = [pc EXCEPT ![t] = "get_exit"]
    /\ UNCHANGED <<now, custom, ttl, lock, stored, gauge, zoneVars, facadeVars>>

\* lines 117-123: ip_address = self.cache.get(fqdn) and the return
Get_read(t) ==
    /\ pc[t] = "get_read"
    /\ LET r == TTLCache_get(cache, loc[t].key, now)
       IN  /\ cache' = r.cache
           /\ loc' = [loc EXCEPT ![t].ret = r.value,
                                 ![t].path = IF r.value # NoValue THEN "hit" ELSE "miss"]
           /\ lastUse' = IF r.value # NoValue THEN MoveToEnd(lastUse, loc[t].key)
                                               ELSE lastUse
    /\ pc' = [pc EXCEPT ![t] = "get_exit"]
    /\ UNCHANGED <<now, custom, ttl, lock, stored, gauge, zoneVars, facadeVars>>

NextSteps ==
    \/ Tick
    \/ \E t \in Threads : Exit(t)
    \/ \E t \in Threads, k \in StepKeys, tt \in TtlArgs : \E v \in Values[k] :
          Set_enter(t, k, v, tt)
    \/ \E t \in Threads : Set_store(t)
    \/ \E t \in Threads : Set_track(t)
    \/ \E t \in Threads : Set_len(t)
    \/ \E t \in Threads, k \in StepKeys : Get_enter(t, k)
    \/ \E t \in Threads : Get_check(t)
    \/ \E t \in Threads : Get_popCustom(t)
    \/ \E t \in Threads : Get_popCache(t)
    \/ \E t \in Threads : Get_read(t)

SpecSteps == Init /\ [][NextSteps]_vars

\* ---- startup: any file, any records in it
Files ==
    {NoFile, [exists |-> TRUE, json |-> FALSE, records |-> <<>>]}
    \cup {[exists |-> TRUE, json |-> TRUE, records |-> r] :
             r \in SeqsUpTo(SubnetRecords \cup MalformedRecords, MaxSubnets)}

InitStartup ==
    /\ now = 0
    /\ cache = NewTTLCache(DNS_CACHE_MAXSIZE, DNS_CACHE_TTL)
    /\ custom = <<>>
    /\ ttl = DNS_CACHE_TTL
    /\ lock = NoThread
    /\ pc = [t \in Threads |-> "idle"]
    /\ loc = [t \in Threads |-> IdleLoc]
    /\ stored = [k \in Keys |-> NoEntry]
    /\ lastUse = <<>>
    /\ gauge = 0
    /\ subnets = <<>>
    /\ mappings = <<>>
    /\ zpc = "start"
    /\ query = NoQuery
    /\ zone = NoZone
    /\ file \in Files
    /\ FacadeIdle

NextStartup ==
    \/ LoadSubnetsData
    \/ LoadMappings
    \/ \E ip \in Addresses \cup {BadAddress} : ZoneLookup(ip)

SpecStartup == InitStartup /\ [][NextStartup]_vars

\* ------------------------------------------- do_GET : a lookup request
\* ipaddress.ip_address(ip_address_str) of the strings the resolver gives
ParseIp(v) ==
    IF v = "ip1" THEN [valid |-> TRUE, ver |-> 4, val |-> 0]
    ELSE IF v = "ip2" THEN [valid |-> TRUE, ver |-> 4, val |-> 1]
    ELSE IF v = "ip3" THEN [valid |-> TRUE, ver |-> 6, val |-> 0]
    ELSE BadAddress

\* the table the requests are served from: the one address ip1 in zoneA,
\* then the whole of IPv4 in zoneB
ServedSubnets ==
    << [CIDRBlock |-> [ver |-> 4, base |-> 0, prefix |-> AddrBits],
        data |-> [AvailabilityZone |-> "zoneA", AvailabilityZoneId |-> "id-a"]],
       [CIDRBlock |-> [ver |-> 4, base |-> 0, prefix |-> 0],
        data |-> [AvailabilityZone |-> "zoneB", AvailabilityZoneId |-> "id-b"]] >>

\* what socket.gethostbyname can raise: socket.gaierror, or anything else
Failures == {"gaierror", "error"}

\* lines 236-248: if zone_data: 200, else 404
ZoneStatus(z) == IF z # NoZone THEN 200 ELSE 404

\* bug: a cached address is never used
CacheHit_Never(v) == FALSE

\* line 310: if ip_address
CacheHit(v) == v # NoValue

\* bug: only the resolution failure has an except clause
Handled_OnlyGaierror(exc) == IF exc = "gaierror" THEN 404 ELSE 0

\* lines 249-256: the status the except clause for exc sends (0: no clause
\* takes exc and it leaves do_GET)
Handled(exc) == IF exc = "gaierror" THEN 404 ELSE 500

\* history: the stores whose entry is still there and not expired
Kept(pr, st, time) == {p \in pr : st[p.k].set /\ time < p.at + ttl}

\* history: a request's own store counts while its entry is still there
StillWrote(rq, st) == [rq EXCEPT !.wrote = @ /\ st[rq.fqdn].set]

\* lines 219-230: fqdn = self.path.strip('/'); an empty one is answered 404
Request(t, name) ==
    /\ rpc[t] = "idle"
    /\ pc[t] = "idle"
    /\ IF name = ""
       THEN /\ req' = [req EXCEPT ![t] = [IdleReq EXCEPT !.status = 404, !.sent = 1]]
            /\ rpc' = [rpc EXCEPT ![t] = "done"]
       ELSE /\ req' = [req EXCEPT ![t] = [IdleReq EXCEPT !.fqdn = name]]
            /\ rpc' = [rpc EXCEPT ![t] = "lookup"]
    /\ UNCHANGED <<promised, cacheVars, zoneVars>>

\* line 309: dns_cache.get(fqdn) takes the lock and runs
GetIpAddress_get(t) ==
    /\ rpc[t] = "lookup"
    /\ GetLocked(t, req[t].fqdn)
    /\ req' = [req EXCEPT ![t].consulted = TRUE]
    /\ UNCHANGED <<rpc, promised, zoneVars>>

\* lines 309-317: get returns; a hit is the address, a miss calls
\* socket.gethostbyname
GetIpAddress_got(t) ==
    /\ rpc[t] = "lookup"
    /\ pc[t] = "get_exit"
    /\ Leave(t)
    /\ LET found == /\ loc[t].st.set
                     /\ loc[t].at < loc[t].st.at + loc[t].st.ttl
           rq == [req[t] EXCEPT !.live = found,
                                !.want = IF found THEN loc[t].st.v ELSE NoValue,
                                !.early = FALSE]
       IN  IF CacheHit(loc[t].ret)
           THEN /\ req' = [req EXCEPT ![t] = [rq EXCEPT !.ip = loc[t].ret, !.hit = TRUE]]
                /\ rpc' = [rpc EXCEPT ![t] = "zone"]
           ELSE /\ req' = [req EXCEPT ![t] = [rq EXCEPT !.called = TRUE]]
                /\ rpc' = [rpc EXCEPT ![t] = "resolving"]
    /\ UNCHANGED <<promised, zoneVars>>

\* line 317: socket.gethostbyname(fqdn) returns an address
GetHostByName_returns(t, v) ==
    /\ rpc[t] = "resolving"
    /\ req' = [req EXCEPT ![t].ip = v]
    /\ rpc' = [rpc EXCEPT ![t] = "store"]
    /\ UNCHANGED <<promised, cacheVars, zoneVars>>

\* lines 325-332 and 249-256: socket.gethostbyname raises, _get_ip_address
\* re-raises and do_GET answers from its except clause
GetHostByName_raises(t, exc) ==
    /\ rpc[t] = "resolving"
    /\ req' = [req EXCEPT ![t].exc = exc,
                          ![t].status = Handled(exc),
                          ![t].sent = IF Handled(exc) # 0 THEN @ + 1 ELSE @]
    /\ rpc' = [rpc EXCEPT ![t] = IF Handled(exc) # 0 THEN "done" ELSE "raised"]
    /\ UNCHANGED <<promised, cacheVars, zoneVars>>

\* line 322: dns_cache.set(fqdn, ip_address) takes the lock and runs (h: the
\* history of promised stores is kept)
GetIpAddress_set(t, h) ==
    /\ rpc[t] = "store"
    /\ SetLocked(t, req[t].fqdn, req[t].ip, NoTtl)
    /\ req' = [x \in Threads |->
                 IF ~h THEN req[x]
                 ELSE IF x = t THEN [req[t] EXCEPT !.wrote = TRUE, !.at = now]
                 ELSE StillWrote(req[x], stored')]
    /\ promised' = Kept(promised, stored', now)
    /\ UNCHANGED <<rpc, zoneVars>>

\* lines 322-324: set returns, _get_ip_address returns the address
GetIpAddress_stored(t) ==
    /\ rpc[t] = "store"
    /\ pc[t] = "set_exit"
    /\ Leave(t)
    /\ rpc' = [rpc EXCEPT ![t] = "zone"]
    /\ req' = [req EXCEPT ![t].stale = FALSE]
    /\ UNCHANGED <<promised, zoneVars>>

\* lines 235-248: _get_zone_data(ip_address) and the response
DoGET_zone(t) ==
    /\ rpc[t] = "zone"
    /\ LET z == GetZoneData(mappings, ParseIp(req[t].ip))
       IN  req' = [x \in Threads |->
                     IF x = t
                     THEN [req[t] EXCEPT !.zone = z, !.status = ZoneStatus(z),
                                         !.sent = @ + 1, !.wrote = FALSE, !.at = 0]
                     ELSE IF req[t].wrote /\ rpc[x] = "lookup" /\ req[x].fqdn = req[t].fqdn
                     THEN [req[x] EXCEPT !.early = TRUE]
                     ELSE req[x]]
    /\ promised' = Kept(IF req[t].wrote
                        THEN promised \cup {[k |-> req[t].fqdn, v |-> req[t].ip,
                                             at |-> req[t].at]}
                        ELSE promised, stored, now)
    /\ rpc' = [rpc EXCEPT ![t] = "done"]
    /\ UNCHANGED <<cacheVars, zoneVars>>

\* do_GET returns
DoGET_return(t) ==
    /\ rpc[t] = "done"
    /\ rpc' = [rpc EXCEPT ![t] = "idle"]
    /\ req' = [req EXCEPT ![t] = IdleReq]
    /\ UNCHANGED <<promised, cacheVars, zoneVars>>

\* lines 214-217: the path /cache/reset calls dns_cache.reset()
DoGET_reset(t) ==
    /\ rpc[t] = "idle"
    /\ ResetLocked(t)
    /\ req' = [x \in Threads |-> [req[x] EXCEPT !.wrote = FALSE,
                                                !.stale = rpc[x] = "store"]]
    /\ promised' = {}
    /\ UNCHANGED <<rpc, zoneVars>>

\* the server after startup, on the table ServedSubnets
InitResolve ==
    /\ now = 0
    /\ cache = NewTTLCache(DNS_CACHE_MAXSIZE, DNS_CACHE_TTL)
    /\ custom = <<>>
    /\ ttl = DNS_CACHE_TTL
    /\ lock = NoThread
    /\ pc = [t \in Threads |-> "idle"]
    /\ loc = [t \in Threads |-> IdleLoc]
    /\ stored = [k \in Keys |-> NoEntry]
    /\ lastUse = <<>>
    /\ gauge = 0
    /\ subnets = ServedSubnets
    /\ mappings = BuildMappings(ServedSubnets, <<>>)
    /\ zpc = "serving"
    /\ query = NoQuery
    /\ zone = NoZone
    /\ file = [exists |-> TRUE, json |-> TRUE, records |-> ServedSubnets]
    /\ FacadeIdle

NextResolve ==
    \/ Tick
    \/ \E t \in Threads, name \in Names \cup {""} : Request(t, name)
    \/ \E t \in Threads : GetIpAddress_get(t)
    \/ \E t \in Threads : GetIpAddress_got(t)
    \/ \E t \in Threads : rpc[t] = "resolving" /\
          \E v \in Values[req[t].fqdn] : GetHostByName_returns(t, v)
    \/ \E t \in Threads, exc \in Failures : GetHostByName_raises(t, exc)
    \/ \E t \in Threads : GetIpAddress_set(t, FALSE)
    \/ \E t \in Threads : GetIpAddress_stored(t)
    \/ \E t \in Threads : DoGET_zone(t)
    \/ \E t \in Threads : DoGET_return(t)
    \/ \E t \in Threads : DoGET_reset(t)
    \/ \E t \in Threads : ResetClear(t)
    \/ \E t \in Threads : ResetPop(t)
    \/ \E t \in Threads : ResetCustom(t)
    \/ \E t \in Threads : pc[t] = "reset_exit" /\ Exit(t)

SpecResolve == InitResolve /\ [][NextResolve]_vars

\* ---- the same requests, with the history of promised stores
NextPromise ==
    \/ Tick
    \/ \E t \in Threads, name \in Names \cup {""} : Request(t, name)
    \/ \E t \in Threads : GetIpAddress_get(t)
    \/ \E t \in Threads : GetIpAddress_got(t)
    \/ \E t \in Threads : rpc[t] = "resolving" /\
          \E v \in Values[req[t].fqdn] : GetHostByName_returns(t, v)
    \/ \E t \in Threads, exc \in Failures : GetHostByName_raises(t, exc)
    \/ \E t \in Threads : GetIpAddress_set(t, TRUE)
    \/ \E t \in Threads : GetIpAddress_stored(t)
    \/ \E t \in Threads : DoGET_zone(t)
    \/ \E t \in Threads : DoGET_return(t)
    \/ \E t \in Threads : DoGET_reset(t)
    \/ \E t \in Threads : ResetClear(t)
    \/ \E t \in Threads : ResetPop(t)
    \/ \E t \in Threads : ResetCustom(t)
    \/ \E t \in Threads : pc[t] = "reset_exit" /\ Exit(t)

SpecPromise == InitResolve /\ [][NextPromise]_vars

\* ---- calls that wait for the lock: a thread calls an operation, is blocked
\* in "with self.lock" until the lock is free, runs the body and returns
Calls == {"call_get", "call_set", "call_reset", "call_stats"}

\* the names and ttl arguments the waiting calls use
FairKeys == {"b", "-c"}

FairTtls == {NoTtl, DNS_CACHE_TTL - 1}

\* a thread calls get, set, reset or stats
Call(t, op) ==
    /\ rpc[t] = "idle"
    /\ pc[t] = "idle"
    /\ rpc' = [rpc EXCEPT ![t] = op]
    /\ UNCHANGED <<req, promised, cacheVars, zoneVars>>

\* lines 106, 127, 142, 150: the blocked thread gets the lock
Acquire(t) ==
    /\ UNCHANGED <<facadeVars, zoneVars>>
    /\ \/ rpc[t] = "call_get" /\ \E k \in FairKeys : GetLocked(t, k)
       \/ rpc[t] = "call_set" /\
             \E k \in FairKeys, tt \in FairTtls : \E v \in Values[k] : SetLocked(t, k, v, tt)
       \/ rpc[t] = "call_reset" /\ ResetLocked(t)
       \/ rpc[t] = "call_stats" /\ StatsLocked(t)

\* a statement of reset or stats inside the with block
Body(t) ==
    /\ rpc[t] \in Calls
    /\ \/ ResetClear(t)
       \/ ResetPop(t)
       \/ ResetCustom(t)
       \/ StatsLen(t)
       \/ StatsKeys(t)
       \/ StatsIter(t)

\* the with block is left and the call returns
Return(t) ==
    /\ rpc[t] \in Calls
    /\ Leave(t)
    /\ rpc' = [rpc EXCEPT ![t] = "idle"]
    /\ UNCHANGED <<req, promised, zoneVars>>

NextFair ==
    \/ Tick
    \/ \E t \in Threads, op \in Calls : Call(t, op)
    \/ \E t \in Threads : Acquire(t)
    \/ \E t \in Threads : Body(t)
    \/ \E t \in Threads : Return(t)

\* a runnable thread is scheduled (weak fairness of its next statement), and
\* a thread blocked on the lock is not passed over for ever when the lock is
\* free again and again (strong fairness of the acquisition)
Fairness ==
    \A t \in Threads :
        /\ SF_vars(Acquire(t))
        /\ WF_vars(Body(t))
        /\ WF_vars(Return(t))

SpecFair == Init /\ [][NextFair]_vars /\ Fairness

\* ---- requests by path: /<name> and /ip/<address>; do_GET has one branch for
\* both (lines 219-232), the stripped path is the name it resolves
PathNames == {"a", "ip/ip1"}

NextPaths ==
    \/ Tick
    \/ \E t \in Threads, name \in PathNames \cup {""} : Request(t, name)
    \/ \E t \in Threads : GetIpAddress_get(t)
    \/ \E t \in Threads : GetIpAddress_got(t)
    \/ \E t \in Threads : rpc[t] = "resolving" /\
          \E v \in Values[req[t].fqdn] : GetHostByName_returns(t, v)
    \/ \E t \in Threads, exc \in Failures : GetHostByName_raises(t, exc)
    \/ \E t \in Threads : GetIpAddress_set(t, FALSE)
    \/ \E t \in Threads : GetIpAddress_stored(t)
    \/ \E t \in Threads : DoGET_zone(t)
    \/ \E t \in Threads : DoGET_return(t)
    \/ \E t \in Threads : DoGET_reset(t)
    \/ \E t \in Threads : ResetClear(t)
    \/ \E t \in Threads : ResetPop(t)
    \/ \E t \in Threads : ResetCustom(t)
    \/ \E t \in Threads : pc[t] = "reset_exit" /\ Exit(t)

SpecPaths == InitResolve /\ [][NextPaths]_vars

\* ---------------------------------------------------------------- types
TypeOK ==
    /\ now \in 0..MaxTime
    /\ lock \in Threads \cup {NoThread}
    /\ DOMAIN cache.data \subseteq Keys
    /\ SeqSet(cache.links) = DOMAIN cache.data
    /\ {cache.chain[i].key : i \in 1..Len(cache.chain)} = DOMAIN cache.data
    /\ Len(cache.links) = Cardinality(DOMAIN cache.data)
    /\ Len(cache.chain) = Cardinality(DOMAIN cache.data)


\* ---------------------------------------------------------------- claims
InGet(t) == pc[t] = "get_exit"

\* C1: in every reachable state the cache stores at most maxsize entries
\* (expired entries not yet purged included).
C1_SizeBounded == Cardinality(DOMAIN cache.data) <= cache.maxsize

\* a set has just evicted an entry from a full cache
C1_Witness ==
    \E t \in Threads :
        /\ pc[t] = "set_exit"
        /\ loc[t].full
        /\ loc[t].gone # {}
        /\ Cardinality(DOMAIN cache.data) = cache.maxsize

\* C2: a value returned by get(k) is the value of the last set of k, and
\* less than that set's ttl (the default when it gave none) has elapsed
\* since that set.
C2_NeverStale ==
    \A t \in Threads :
        InGet(t) /\ loc[t].ret # NoValue =>
            /\ loc[t].st.set
            /\ loc[t].ret = loc[t].st.v
            /\ loc[t].at - loc[t].st.at < loc[t].st.ttl

\* a hit in the last instant before the ttl of the entry ends
C2_Witness ==
    \E t \in Threads :
        /\ InGet(t)
        /\ loc[t].ret # NoValue
        /\ loc[t].at - loc[t].st.at = loc[t].st.ttl - 1
        /\ loc[t].at > loc[t].st.at

\* C3 (as claimed): for every ttl, get(k) returns v at every time before
\* t + ttl and absent from t + ttl on, as long as k is not overwritten,
\* evicted or reset.
C3_ExpiryIsSetTimePlusTtl ==
    \A t \in Threads :
        InGet(t) /\ loc[t].st.set =>
            /\ loc[t].at < loc[t].st.at + loc[t].st.ttl => loc[t].ret = loc[t].st.v
            /\ loc[t].at >= loc[t].st.at + loc[t].st.ttl => loc[t].ret = NoValue

\* C4 (as claimed): once the ttl of k's entry has elapsed, get(k) returns
\* absent and a stats() taken afterwards neither counts nor lists k; before
\* the ttl elapses get(k) returns the stored value.
C4_LazyExpiry ==
    \A t \in Threads :
        InGet(t) /\ loc[t].st.set =>
            /\ loc[t].at >= loc[t].st.at + loc[t].st.ttl =>
                  /\ loc[t].ret = NoValue
                  /\ loc[t].key \notin Listed(cache, now)
                  /\ TTLCache_len(cache, now) = Cardinality(Listed(cache, now) \ {loc[t].key})
            /\ loc[t].at < loc[t].st.at + loc[t].st.ttl =>
                  /\ loc[t].ret = loc[t].st.v
                  /\ loc[t].key \in Listed(cache, loc[t].at)

\* the step by which get(b) lazily removes b, stored with a custom ttl
\* shorter than the default and listed until then
LazyRemoval(t, b) ==
    /\ pc[t] = "idle"
    /\ pc'[t] = "get_exit"
    /\ loc'[t].key = b
    /\ loc'[t].path = "expired"
    /\ stored[b].set
    /\ stored[b].ttl < ttl
    /\ b \in Listed(cache, now)

\* C5: when get(b) lazily removes the expired custom-ttl entry b, exactly b
\* leaves the cache; every other entry keeps its value, its expiry and its
\* custom record, and an unexpired default-ttl entry a is still a hit.
C5_Frame ==
    \A t \in Threads, b \in Keys :
        LazyRemoval(t, b) =>
            /\ DOMAIN cache'.data = DOMAIN cache.data \ {b}
            /\ Listed(cache', now') = Listed(cache, now) \ {b}
            /\ DOMAIN custom' = DOMAIN custom \ {b}
            /\ \A a \in DOMAIN cache'.data :
                  /\ cache'.data[a] = cache.data[a]
                  /\ ExpiresOf(cache', a) = ExpiresOf(cache, a)
                  /\ a \in DOMAIN custom => custom'[a] = custom[a]
            /\ \A a \in Keys \ {b} :
                  stored[a].set /\ stored[a].ttl = ttl /\ now < stored[a].at + ttl =>
                      DNSCache_get(cache', custom', a, now').value = stored[a].v

C5_PerEntryExpiry == [][C5_Frame]_vars

\* get(b) has removed b alone while a default-ttl entry is live
C5_Witness ==
    \E t \in Threads, a \in Keys :
        /\ InGet(t)
        /\ loc[t].path = "expired"
        /\ loc[t].st.set
        /\ loc[t].st.ttl < ttl
        /\ loc[t].gone = {loc[t].key}
        /\ a # loc[t].key
        /\ stored[a].set
        /\ stored[a].ttl = ttl
        /\ loc[t].at > loc[t].st.at
        /\ a \in Listed(cache, now)

\* C6 (as claimed): after set(k, v, ttl) whose ttl has not elapsed, a get(k)
\* returns v and changes neither the stored keys, the stored values nor the
\* number of entries stats() would count; so do two gets in a row.
C6_Hit ==
    \A t \in Threads, k \in Keys :
        /\ pc[t] = "idle"
        /\ pc'[t] = "get_exit"
        /\ loc'[t].key = k
        /\ stored[k].set
        /\ now < stored[k].at + stored[k].ttl
        => /\ loc'[t].ret = stored[k].v
           /\ cache'.data = cache.data
           /\ Listed(cache', now') = Listed(cache, now)
           /\ stored'[k] = stored[k]

C6_IdempotentHit == [][C6_Hit]_vars

\* C7: a set of a new key into a cache holding maxsize live entries evicts
\* exactly the least recently used entry, stores the new key and leaves
\* maxsize entries.
C7_EvictsLRU ==
    \A t \in Threads :
        pc[t] = "set_exit" /\ loc[t].full =>
            /\ loc[t].gone = {loc[t].lru}
            /\ loc[t].key \in DOMAIN cache.data
            /\ loc[t].key \in Listed(cache, loc[t].at)
            /\ Cardinality(DOMAIN cache.data) = cache.maxsize

\* the evicted key was stored after the key that survives: recency, not
\* insertion order, chose it
C7_Witness ==
    \E t \in Threads, a \in Keys :
        /\ pc[t] = "set_exit"
        /\ loc[t].full
        /\ loc[t].gone = {loc[t].lru}
        /\ a \in DOMAIN cache.data
        /\ a # loc[t].key
        /\ ExpiresOf(cache, a) < loc[t].at + cache.ttl
        /\ loc[t].lru \in DOMAIN custom
        /\ custom[loc[t].lru] = loc[t].at + (DNS_CACHE_TTL - 1)

\* C8: when reset() returns the cache is empty for stats() and for get() of
\* every key, maxsize and the default ttl are what they were; a get returns
\* a value only if the key was set after the last reset; and no other thread
\* is inside a cache operation while a reset is under way.
C8_ResetAtomic ==
    /\ \A t \in Threads :
          pc[t] = "reset_exit" =>
              /\ DOMAIN cache.data = {}
              /\ Listed(cache, now) = {}
              /\ TTLCache_len(cache, now) = 0
              /\ DOMAIN custom = {}
              /\ \A k \in Keys : DNSCache_get(cache, custom, k, now).value = NoValue
              /\ cache.maxsize = DNS_CACHE_MAXSIZE
              /\ cache.ttl = DNS_CACHE_TTL
              /\ ttl = DNS_CACHE_TTL
    /\ \A t \in Threads : InGet(t) /\ loc[t].ret # NoValue => loc[t].st.set
    /\ \A t, u \in Threads :
          t # u /\ pc[t] \in {"reset_clear", "reset_pop", "reset_custom", "reset_exit"}
              => pc[u] = "idle"

\* a reset has cleared a default-ttl entry and a custom-ttl entry
C8_Witness ==
    \E t \in Threads :
        /\ pc[t] = "reset_exit"
        /\ loc[t].gone \ loc[t].untracked # {}
        /\ loc[t].gone \cap loc[t].untracked # {}

\* C9 (as claimed): what stats() returns is coherent: total_entries is the
\* number of keys listed, the listed keys are all stored at the instant of
\* the return, and total_entries is at most maxsize.
C9_StatsCoherent ==
    \A t \in Threads :
        pc[t] = "stats_exit" =>
            /\ loc[t].total = Len(loc[t].keys)
            /\ SeqSet(loc[t].keys) \subseteq DOMAIN cache.data
            /\ loc[t].total <= cache.maxsize


\* the addresses of a network, as the range base .. base + size - 1
Encloses(net, ip) ==
    /\ ip.ver = net.ver
    /\ net.base <= ip.val
    /\ ip.val < net.base + Pow2(AddrBits - net.prefix)

DistinctRanges(recs) ==
    \A i, j \in 1..Len(recs) : i # j => recs[i].CIDRBlock # recs[j].CIDRBlock

Answered == zpc = "serving" /\ query.valid

\* C10: for a table of pairwise distinct ranges and a valid address, the
\* lookup returns the data of the first loaded record whose range encloses
\* the address, and absent exactly when no range encloses it.
C10_FirstMatch ==
    Answered /\ DistinctRanges(subnets) =>
        LET hits == {i \in 1..Len(subnets) : Encloses(subnets[i].CIDRBlock, query)}
        IN  IF hits = {} THEN zone = NoZone
            ELSE /\ zone # NoZone
                 /\ zone = subnets[CHOOSE i \in hits : \A j \in hits : i <= j].data

\* two overlapping ranges enclose the address, the first loaded is the less
\* specific one and its zone is the answer
C10_Witness ==
    /\ Answered
    /\ Len(subnets) = 2
    /\ Encloses(subnets[1].CIDRBlock, query)
    /\ Encloses(subnets[2].CIDRBlock, query)
    /\ subnets[1].CIDRBlock.prefix < subnets[2].CIDRBlock.prefix
    /\ subnets[1].data # subnets[2].data
    /\ zone = subnets[1].data

\* ------------------------------------ further claims on the cache operations
\* C24: a get(k) returns absent or the value of the most recent set of k not
\* followed by a reset (nor by its eviction); the value it returns is the one
\* the cache holds for k at that instant.
C24_LastStored ==
    \A t \in Threads :
        InGet(t) =>
            /\ loc[t].ret \in {NoValue, loc[t].st.v}
            /\ loc[t].ret # NoValue =>
                  /\ stored[loc[t].key].v = loc[t].ret
                  /\ cache.data[loc[t].key] = loc[t].ret
            /\ ~loc[t].st.set => loc[t].ret = NoValue

\* a get of a returns ip1 while b, stored after a, holds another address
C24_Witness ==
    \E t \in Threads :
        /\ InGet(t)
        /\ loc[t].key = "a"
        /\ loc[t].ret = "ip1"
        /\ "b" \in DOMAIN cache.data
        /\ cache.data["b"] = "ip2"
        /\ stored["b"].at > stored["a"].at

\* C26 (as claimed): whenever no operation is under way, every key with a
\* custom-TTL record is a key the cache stores, and there are at most maxsize
\* custom-TTL records.
C26_CustomWithinCache ==
    lock = NoThread =>
        /\ DOMAIN custom \subseteq DOMAIN cache.data
        /\ Cardinality(DOMAIN custom) <= cache.maxsize

\* C29 (as claimed): every key that stats() returns and that the cache would
\* still list at the instant of the return is a key for which a get at that
\* instant returns a value, and total_entries counts no other key.
C29_StatsAgreesWithGet ==
    \A t \in Threads :
        pc[t] = "stats_exit" =>
            /\ \A k \in SeqSet(loc[t].keys) \cap Listed(cache, now) :
                  DNSCache_get(cache, custom, k, now).value # NoValue
            /\ TTLCache_len(cache, now) =
                  Cardinality({k \in Keys : DNSCache_get(cache, custom, k, now).value # NoValue})

\* C30 (as claimed): when a get, a set or a reset has run, the gauge is the
\* number of entries of the cache: those not expired at the instant of the
\* operation, or else those it still stores.
C30_GaugeIsSize ==
    \A t \in Threads :
        pc[t] \in {"get_exit", "set_exit", "reset_exit"} =>
            gauge \in {TTLCache_len(cache, loc[t].at), Cardinality(DOMAIN cache.data)}

\* ------------------------------------------------- claims on the requests
\* the names that are well-formed host names
ValidFqdn(name) == name \in {"a", "b"}

InRequest(t) == rpc[t] # "idle"

\* the zone of the first served range that encloses the address of v
FirstZone(v) ==
    LET hits == {i \in 1..Len(ServedSubnets) :
                    Encloses(ServedSubnets[i].CIDRBlock, ParseIp(v))}
    IN  IF hits = {} THEN NoZone
        ELSE ServedSubnets[CHOOSE i \in hits : \A j \in hits : i <= j].data

\* C11 (as claimed): a request for a name that is not well formed is answered
\* 400 without the cache being consulted and without the resolver being
\* called.
C11_InvalidRejected ==
    \A t \in Threads :
        InRequest(t) /\ req[t].fqdn # "" /\ ~ValidFqdn(req[t].fqdn) =>
            /\ ~req[t].consulted
            /\ ~req[t].called
            /\ pc[t] = "idle"
            /\ rpc[t] = "done" => req[t].status = 400

\* C13 (as claimed): once a request that stored name -> address has been
\* answered, every request for the name that starts afterwards and looks the
\* name up before that entry expires, is evicted or is reset gets that same
\* address from the cache.
C13_SameAddress ==
    \A t \in Threads :
        rpc[t] = "lookup" /\ pc[t] = "get_exit" /\ ~req[t].early =>
            \A p \in promised :
                p.k = loc[t].key /\ loc[t].at < p.at + ttl => loc[t].ret = p.v

\* C13 (amended): the store after a miss is name -> address with the default
\* ttl; a request whose cache lookup finds the entry of the last store, not
\* expired, evicted or reset, answers with the address of that last store and
\* the zone of that address without calling the resolver.
C13_CachedAnswer ==
    \A t \in Threads :
        /\ rpc[t] = "store" /\ pc[t] = "set_exit" =>
              /\ stored[req[t].fqdn] = [set |-> TRUE, v |-> req[t].ip,
                                        at |-> loc[t].at, ttl |-> DNS_CACHE_TTL]
              /\ cache.data[req[t].fqdn] = req[t].ip
              /\ ExpiresOf(cache, req[t].fqdn) = loc[t].at + DNS_CACHE_TTL
              /\ req[t].fqdn \notin DOMAIN custom
        /\ rpc[t] = "lookup" /\ pc[t] = "get_exit" /\ loc[t].st.set
              /\ loc[t].at < loc[t].st.at + DNS_CACHE_TTL => loc[t].ret = loc[t].st.v
        /\ rpc[t] \in {"resolving", "store", "raised"} => ~req[t].live
        /\ rpc[t] \in {"zone", "done"} /\ req[t].live =>
              /\ req[t].hit
              /\ ~req[t].called
              /\ req[t].ip = req[t].want
        /\ rpc[t] = "done" /\ req[t].hit =>
              /\ req[t].sent = 1
              /\ req[t].zone = FirstZone(req[t].ip)
              /\ req[t].status = IF FirstZone(req[t].ip) = NoZone THEN 404 ELSE 200

\* a request answered 200 from an entry that an earlier request stored
C13_Witness ==
    \E t \in Threads :
        /\ rpc[t] = "done"
        /\ req[t].live
        /\ req[t].status = 200
        /\ ~req[t].called
        /\ stored[req[t].fqdn].set
        /\ stored[req[t].fqdn].v = req[t].ip
        /\ stored[req[t].fqdn].at < now

\* the steps of a request whose cache lookup finds nothing live and whose
\* resolution fails
C14_Step ==
    \A t \in Threads :
        /\ rpc[t] = "lookup" /\ pc[t] = "idle" /\ pc'[t] = "get_exit"
              /\ loc'[t].ret = NoValue =>
                 /\ cache'.data = cache.data
                 /\ custom' = custom
        /\ rpc[t] = "lookup" /\ pc[t] = "get_exit" /\ rpc'[t] # "lookup"
              /\ ~(loc[t].st.set /\ loc[t].at < loc[t].st.at + DNS_CACHE_TTL) =>
                 rpc'[t] = "resolving"
        /\ rpc[t] = "resolving" /\ req'[t].exc # "none" =>
                 /\ cache' = cache
                 /\ custom' = custom
                 /\ stored' = stored
                 /\ rpc'[t] = "done"
                 /\ req'[t].sent = 1
                 /\ req'[t].exc = "gaierror" => req'[t].status = 404

\* C14: a request whose resolution fails is answered 404, none of its steps
\* changes the entries of the cache, and a request that finds no live entry
\* for its name calls the resolver (again).
C14_FailuresNotCached == [][C14_Step]_vars

\* a failed request has been answered 404; the cache holds other entries, one
\* of them expired and not yet purged, and nothing for the name
C14_Witness ==
    \E t \in Threads :
        /\ rpc[t] = "done"
        /\ req[t].exc = "gaierror"
        /\ req[t].status = 404
        /\ req[t].fqdn \notin DOMAIN cache.data
        /\ \E k \in DOMAIN cache.data : ~TTLCache_contains(cache, k, now)

\* C15: a thread whose request is inside socket.gethostbyname does not hold
\* the cache lock and is in no cache operation; the lock is free or held by
\* another thread.
C15_NoLockWhileResolving ==
    \A t \in Threads :
        rpc[t] = "resolving" =>
            /\ lock # t
            /\ lock \in {NoThread} \cup (Threads \ {t})
            /\ pc[t] = "idle"

\* one thread is inside the resolver while another holds the lock in set
C15_Witness ==
    \E t, u \in Threads :
        /\ t # u
        /\ rpc[t] = "resolving"
        /\ lock = u
        /\ pc[u] = "set_exit"

\* C20: a request never leaves do_GET by an exception; when do_GET is done
\* exactly one response has been sent: 404 for a resolution failure, 500 for
\* any other exception, else 200 or 404 as the range lookup finds a zone or
\* none; before that none has been sent.
C20_ErrorsAreValues ==
    \A t \in Threads :
        /\ rpc[t] # "raised"
        /\ rpc[t] # "done" => req[t].sent = 0
        /\ rpc[t] = "done" =>
              /\ req[t].sent = 1
              /\ req[t].status \in {200, 404, 500}
              /\ req[t].exc = "gaierror" => req[t].status = 404
              /\ req[t].exc = "error" => req[t].status = 500
              /\ req[t].exc = "none" /\ req[t].fqdn # "" =>
                    req[t].status = IF req[t].zone # NoZone THEN 200 ELSE 404

\* one request answered 500 after an unexpected exception while another is
\* answered 200
C20_Witness ==
    \E t, u \in Threads :
        /\ rpc[t] = "done"
        /\ req[t].exc = "error"
        /\ req[t].status = 500
        /\ rpc[u] = "done"
        /\ req[u].status = 200

\* the address in the path /ip/<address>
PathAddress(name) == IF name = "ip/ip1" THEN "ip1" ELSE NoValue

\* C21 (as claimed): a request /ip/<address> with a valid address never
\* consults the cache and never calls the resolver, and is answered with the
\* zone of the first range that encloses the address, 404 when there is none.
C21_IpPathFromTable ==
    \A t \in Threads :
        InRequest(t) /\ req[t].fqdn \in IpPaths =>
            /\ ~req[t].consulted
            /\ ~req[t].called
            /\ pc[t] = "idle"
            /\ rpc[t] = "done" =>
                  /\ req[t].zone = FirstZone(PathAddress(req[t].fqdn))
                  /\ req[t].status = ZoneStatus(FirstZone(PathAddress(req[t].fqdn)))

\* C22 (as claimed): a request with the legacy path /<name> is answered 404,
\* whatever the name resolves to.
C22_LegacyNotFound ==
    \A t \in Threads :
        rpc[t] = "done" /\ req[t].fqdn \in Names => req[t].status = 404


InReset(t) == pc[t] \in {"reset_clear", "reset_pop", "reset_custom", "reset_exit"}

\* C27 (as claimed): no request stores, after a reset has run, an address the
\* resolver returned before that reset began.
C27_NothingFromBeforeReset ==
    \A t \in Threads :
        rpc[t] = "store" /\ pc[t] = "set_exit" => ~req[t].stale

\* C27 (amended): when reset returns the cache is empty; while no reset is
\* under way every entry of the cache is that of a set that took the lock
\* after the last reset began, and a hit returns the value of such a set; a
\* request marked stale had the resolver's address in hand, not yet stored,
\* when the reset began.
C27_ResetThenStores ==
    /\ \A t \in Threads :
          /\ pc[t] = "reset_exit" =>
                /\ DOMAIN cache.data = {}
                /\ DOMAIN custom = {}
                /\ \A k \in Keys : ~stored[k].set
          /\ rpc[t] = "lookup" /\ pc[t] = "get_exit" /\ loc[t].ret # NoValue =>
                /\ loc[t].st.set
                /\ loc[t].ret = loc[t].st.v
          /\ req[t].stale => rpc[t] = "store" /\ req[t].ip \in Values[req[t].fqdn]
    /\ (\A t \in Threads : ~InReset(t)) =>
          \A k \in DOMAIN cache.data :
              /\ stored[k].set
              /\ cache.data[k] = stored[k].v

\* a reset that emptied the cache returns while another request holds an
\* address it has not stored yet
C27_Witness ==
    \E t, u \in Threads :
        /\ pc[t] = "reset_exit"
        /\ loc[t].gone # {}
        /\ rpc[u] = "store"
        /\ req[u].stale
        /\ DOMAIN cache.data = {}

\* C28 (as claimed): the resolver is never being called by two requests for
\* the same name at once.
C28_SingleFlight ==
    \A t, u \in Threads :
        t # u /\ rpc[t] = "resolving" /\ rpc[u] = "resolving" =>
            req[t].fqdn # req[u].fqdn

\* a request enters the resolver only from its own cache miss and only if it
\* has not called it before; a request whose cache lookup returned an address
\* goes on with that address and does not call the resolver
C28_Step ==
    \A t \in Threads :
        /\ rpc[t] # "resolving" /\ rpc'[t] = "resolving" =>
              /\ rpc[t] = "lookup"
              /\ pc[t] = "get_exit"
              /\ loc[t].ret = NoValue
              /\ ~req[t].called
              /\ req'[t].called
        /\ rpc[t] = "resolving" /\ rpc'[t] # "resolving" =>
              rpc'[t] \in {"store", "done"}
        /\ rpc[t] = "lookup" /\ pc[t] = "get_exit" /\ loc[t].ret # NoValue
              /\ rpc'[t] # "lookup" =>
                 /\ rpc'[t] = "zone"
                 /\ ~req'[t].called
                 /\ req'[t].ip = loc[t].ret
        /\ rpc[t] \in {"store", "zone", "done"} => rpc'[t] # "resolving"

\* C28 (amended): each request calls the resolver at most once, after its own
\* cache miss; a request whose cache lookup finds the address does not call
\* it.
C28_OncePerCall == [][C28_Step]_vars

\* one request is still inside the resolver for a name that another request,
\* which also missed and called the resolver, has just stored
C28_Witness ==
    \E t, u \in Threads :
        /\ t # u
        /\ rpc[t] = "resolving"
        /\ rpc[u] = "store"
        /\ pc[u] = "set_exit"
        /\ req[u].called
        /\ req[t].fqdn = req[u].fqdn
        /\ req[t].fqdn \in DOMAIN cache.data

\* ------------------------------------------------ claims on blocked calls
Blocked(t) == rpc[t] \in Calls /\ pc[t] = "idle"

C12_InvalidAddressReported ==
    zpc = "serving" /\ query = BadAddress =>
        /\ zone # NoZone
        /\ ZoneStatus(zone) = 400

\* C18 (as claimed): the server is serving only if every record of the file
\* has a valid CIDRBlock and both zone fields, no two records have the same
\* range, and the table has an item for every record.
C18_RefusesMalformed ==
    zpc = "serving" =>
        /\ \A i \in 1..Len(file.records) : RecordFault(file.records[i]) = "none"
        /\ DistinctRanges(file.records)
        /\ Len(mappings) = Len(file.records)

InSet(t, k) == pc[t] \in {"set_store", "set_track", "set_len"} /\ loc[t].key = k

InPop(t, k) == pc[t] \in {"get_pop_custom", "get_pop_cache"} /\ loc[t].key = k

\* the value, the expiry and the custom-TTL record of k are those of one
\* write, the last one
OneWrite(k) ==
    k \in DOMAIN cache.data /\ stored[k].set =>
        /\ cache.data[k] = stored[k].v
        /\ ExpiresOf(cache, k) = stored[k].at + ttl
        /\ k \in DOMAIN custom =>
              /\ stored[k].ttl # ttl
              /\ custom[k] >= stored[k].at + stored[k].ttl
              /\ custom[k] <= now + stored[k].ttl
        /\ stored[k].ttl # ttl /\ TTLCache_contains(cache, k, now)
              /\ (\A t \in Threads : ~InPop(t, k)) => k \in DOMAIN custom

\* C16: whenever no set of k is under way, and whenever a get of k reads the
\* tables, the stored value, its expiry and its custom-TTL record all come
\* from the last set of k; sets of one key take effect one after the other.
C16_SetsSerialized ==
    /\ \A k \in Keys : (\A t \in Threads : ~InSet(t, k)) => OneWrite(k)
    /\ \A t \in Threads : pc[t] \in {"get_check", "get_read"} => OneWrite(loc[t].key)
    /\ \A t, u \in Threads : t # u /\ (\E k \in Keys : InSet(t, k)) => pc[u] = "idle"

\* inside a set the value of k is already the new one while the custom-TTL
\* record is still that of the previous set of k
C16_Witness ==
    \E t \in Threads :
        /\ pc[t] = "set_track"
        /\ loc[t].tt = NoTtl
        /\ cache.data[loc[t].key] = loc[t].val
        /\ loc[t].key \in DOMAIN custom
        /\ custom[loc[t].key] < loc[t].at + ttl

\* C17: between the expiry test of get(k) and its two deletes the entry of k
\* is the one the test found expired, no set has written k; and when no call
\* on k is under way, a last set of k whose ttl and default ttl have not
\* elapsed is what get(k) returns.
C17_CheckAndDeleteAtomic ==
    /\ \A t \in Threads :
          pc[t] \in {"get_pop_custom", "get_pop_cache"} =>
              /\ stored[loc[t].key] = loc[t].st
              /\ loc[t].st.set => loc[t].at >= loc[t].st.at + loc[t].st.ttl
              /\ pc[t] = "get_pop_custom" =>
                    /\ loc[t].key \in DOMAIN custom
                    /\ custom[loc[t].key] <= loc[t].at
    /\ \A k \in Keys :
          /\ \A t \in Threads : ~InSet(t, k) /\ ~InPop(t, k)
          /\ stored[k].set
          /\ now < stored[k].at + stored[k].ttl
          /\ now < stored[k].at + ttl
          => DNSCache_get(cache, custom, k, now).value = stored[k].v

\* a get has found the custom TTL of k expired and is about to delete the
\* entry, which the cache still holds
C17_Witness ==
    \E t \in Threads :
        /\ pc[t] = "get_pop_cache"
        /\ loc[t].st.set
        /\ loc[t].st.ttl < ttl
        /\ TTLCache_contains(cache, loc[t].key, now)

\* a set of k without ttl, or with the default ttl, has stored and tracked
DefaultSetDone(t) ==
    /\ pc[t] \in {"set_len", "set_exit"}
    /\ loc[t].tt \in {NoTtl, ttl}

\* C25: once a set(k, v2) with the default ttl has stored, k has no custom
\* record whatever the previous set of k left, the entry expires a default ttl
\* after this set, and a get(k) at any instant before that returns v2; a get
\* that finds the last set of k to be such a set, less than a default ttl
\* old, returns its value.
C25_MarkingFollowsLastWrite ==
    \A t \in Threads :
        /\ DefaultSetDone(t) =>
              /\ loc[t].key \notin DOMAIN custom
              /\ now < loc[t].at + ttl =>
                    /\ cache.data[loc[t].key] = loc[t].val
                    /\ ExpiresOf(cache, loc[t].key) = loc[t].at + ttl
              /\ \A time \in now..MaxTime :
                    time < loc[t].at + ttl =>
                        DNSCache_get(cache, custom, loc[t].key, time).value = loc[t].val
        /\ pc[t] = "get_exit" /\ loc[t].st.set /\ loc[t].st.ttl = ttl
              /\ now < loc[t].st.at + ttl => loc[t].ret = loc[t].st.v

\* a set without ttl has removed the record of a shorter custom ttl that has
\* elapsed by now, and a get now would return the new value
C25_Witness ==
    \E t \in Threads :
        /\ pc[t] = "set_exit"
        /\ loc[t].tt = NoTtl
        /\ loc[t].was # NoTtl
        /\ loc[t].was < loc[t].at + ttl
        /\ loc[t].was <= now
        /\ DNSCache_get(cache, custom, loc[t].key, now).value = loc[t].val

\* the store of a set whose key is live in a cache of maxsize live entries
C31_Step ==
    \A t \in Threads :
        /\ pc[t] = "set_store"
        /\ pc'[t] = "set_track"
        /\ loc[t].key \in Listed(cache, now)
        /\ Cardinality(Listed(cache, now)) = cache.maxsize
        => /\ DOMAIN cache'.data = DOMAIN cache.data
           /\ Listed(cache', now') = Listed(cache, now)
           /\ Cardinality(DOMAIN cache'.data) = cache.maxsize
           /\ cache'.data[loc[t].key] = loc[t].val
           /\ ExpiresOf(cache', loc[t].key) = now + cache.ttl
           /\ \A j \in DOMAIN cache.data \ {loc[t].key} :
                 /\ cache'.data[j] = cache.data[j]
                 /\ ExpiresOf(cache', j) = ExpiresOf(cache, j)
                 /\ stored'[j] = stored[j]
           /\ custom' = custom

\* C31: a set of a key that is live in a cache holding maxsize live entries
\* overwrites the value and the expiry of that key; the stored keys are the
\* same before and after, and every other entry keeps its value, its expiry
\* and its custom-TTL record.
C31_OverwriteInPlace == [][C31_Step]_vars

\* a set has overwritten its key in a full cache at a later instant than the
\* other entry was stored; the other entry is still there
C31_Witness ==
    \E t \in Threads, j \in Keys :
        /\ pc[t] = "set_track"
        /\ loc[t].over
        /\ j # loc[t].key
        /\ j \in Listed(cache, now)
        /\ ExpiresOf(cache, j) < ExpiresOf(cache, loc[t].key)
        /\ cache.data[loc[t].key] = loc[t].val
        /\ Cardinality(DOMAIN cache.data) = cache.maxsize

=============================================================================
